---- MODULE Spec2Model ----
(***************************************************************************)
(* Final_Project/env_limits.h and Final_Project/pins.h of                  *)
(* First_Steps_in_Arduino.  The two headers hold nothing but object-like   *)
(* macros, so the behaviour they have is the one the C preprocessor gives  *)
(* them: a translation unit includes the headers, the preprocessor reads   *)
(* them line by line and every #define binds a name in the macro table.    *)
(* The model is that reading; the properties are stated of the macro       *)
(* table it builds.                                                        *)
(***************************************************************************)
EXTENDS Integers, Sequences, FiniteSets

\* The number of #include directives of the two headers a translation unit
\* holds.  Neither header has an include guard, so a second inclusion is
\* read again in full.
MaxIncludes ==
  3

----------------------------------------------------------------------------
\* Replacement lists.  A replacement list in these headers is one token:
\* a decimal integer, or one of the analog pin names A0..A3.

Num(n) == [tok |-> "int", n |-> n]

Analog(n) == [tok |-> "analog", n |-> n]

\* Header lines.
Comment == [kind |-> "comment"]

Blank == [kind |-> "blank"]

Define(name, body) == [kind |-> "define", name |-> name, body |-> body]

----------------------------------------------------------------------------
\* The macros, each with the replacement list its #define gives it.

\* env_limits.h:2
BAUD_RATE ==
  9600

\* MOTOR_OFF_FREQUENCY as a slip of the pen would leave it.
MOTOR_OFF_FREQUENCY_slip ==
  50000 * 10

\* env_limits.h:5
MOTOR_OFF_FREQUENCY ==
  50000

\* env_limits.h:8
RANDOM_INFLOW_MAX ==
  1000

\* env_limits.h:11
MIN_ANALOG_READ ==
  0

\* env_limits.h:12
MAX_ANALOG_READ ==
  1023

\* env_limits.h:13
MIN_ANALOG_WRITE ==
  0

\* env_limits.h:14
MAX_ANALOG_WRITE ==
  255

\* env_limits.h:17
ZERO_SPEED ==
  0

\* env_limits.h:18
QUARTER_SPEED ==
  64

\* HALF_SPEED as a slip of the pen would leave it.
HALF_SPEED_slip ==
  256 \div 4

\* env_limits.h:19
HALF_SPEED ==
  128

\* THREE_QUARTERS_SPEED as a slip of the pen would leave it.
THREE_QUARTERS_SPEED_rounded ==
  191 + 1

\* env_limits.h:20
THREE_QUARTERS_SPEED ==
  191

\* FULL_SPEED as a slip of the pen would leave it.
FULL_SPEED_overflow ==
  255 + 1

\* env_limits.h:21
FULL_SPEED ==
  255

\* env_limits.h:24
QUARTER_SPEED_CTRL_MAX ==
  256

\* env_limits.h:25
HALF_SPEED_CTRL_MAX ==
  512

\* THREE_QUARTERS_SPEED_CTRL_MAX as a slip of the pen would leave it.
THREE_QUARTERS_SPEED_CTRL_MAX_top ==
  767 + 256

\* env_limits.h:26
THREE_QUARTERS_SPEED_CTRL_MAX ==
  767

\* env_limits.h:29
POOL_EMPTY ==
  0

\* env_limits.h:30
POOL_LOW_LOWER ==
  500000

\* POOL_LOW_HIGHER as a slip of the pen would leave it.
POOL_LOW_HIGHER_slip ==
  1200000 * 10

\* env_limits.h:31
POOL_LOW_HIGHER ==
  1200000

\* env_limits.h:32
POOL_HIGH_LOWER ==
  2500000

\* env_limits.h:33
POOL_CRITICAL_LOWER ==
  3500000

\* env_limits.h:34
POOL_FULL_LOWER ==
  4000000

\* env_limits.h:35
POOL_FULL ==
  5000000

\* env_limits.h:36
INFLOW_ABS_MAX ==
  150000

\* env_limits.h:39
DEBOUNCE_INTERVAL ==
  50

\* env_limits.h:40
LOG_INFO_INTERVAL ==
  3000

\* env_limits.h:41
RANDOM_INFLOW_INTERVAL ==
  1000

\* env_limits.h:42
LOW_ENERGY_TIMEOUT ==
  1000

\* env_limits.h:43
OK_ENERGY_TIMEOUT ==
  1000

\* env_limits.h:44
HIGH_ENERGY_TIMEOUT ==
  500

\* env_limits.h:45
CRITICAL_ENERGY_TIMEOUT ==
  250

\* env_limits.h:46
LOW_POWER_MODE_LOG_TIMEOUT ==
  50

\* env_limits.h:47
STABILITY_TIMEOUT ==
  25

\* pins.h:2
LOW_ENERGY_LED ==
  7

\* pins.h:3
OK_ENERGY_LED ==
  13

\* HIGH_ENERGY_LED as a slip of the pen would leave it.
HIGH_ENERGY_LED_rewired ==
  8 + 1

\* pins.h:4
HIGH_ENERGY_LED ==
  8

\* pins.h:5
CRITICAL_ENERGY_LED ==
  12

\* pins.h:8
NET_GAIN_LED ==
  6

\* pins.h:9
NET_LOSS_LED ==
  5

\* pins.h:12
RELEASE_VALVE ==
  Analog(1)

\* pins.h:15
ON_BUTTON ==
  3

\* pins.h:16
OFF_BUTTON ==
  4

\* TOGGLE_BUTTON as a slip of the pen would leave it.
TOGGLE_BUTTON_rewired ==
  Analog(1)

\* pins.h:17
TOGGLE_BUTTON ==
  Analog(3)

\* pins.h:20
MOTOR_REGULATOR ==
  Analog(2)

\* pins.h:21
MOTOR_SPEED_PIN ==
  9

\* pins.h:22
MOTOR_1A_PIN ==
  10

\* pins.h:23
MOTOR_2A_PIN ==
  11

\* pins.h:26
ENERGY_SOURCE ==
  Analog(0)

\* pins.h:29
MOTOR_OFF_SIGNAL ==
  2

----------------------------------------------------------------------------
\* The headers, line by line (the index of a line is its line number).

env_limits_h ==
  << Comment,
     Define("BAUD_RATE", Num(BAUD_RATE)),
     Blank,
     Comment,
     Define("MOTOR_OFF_FREQUENCY", Num(MOTOR_OFF_FREQUENCY)),
     Blank,
     Comment,
     Define("RANDOM_INFLOW_MAX", Num(RANDOM_INFLOW_MAX)),
     Blank,
     Comment,
     Define("MIN_ANALOG_READ", Num(MIN_ANALOG_READ)),
     Define("MAX_ANALOG_READ", Num(MAX_ANALOG_READ)),
     Define("MIN_ANALOG_WRITE", Num(MIN_ANALOG_WRITE)),
     Define("MAX_ANALOG_WRITE", Num(MAX_ANALOG_WRITE)),
     Blank,
     Comment,
     Define("ZERO_SPEED", Num(ZERO_SPEED)),
     Define("QUARTER_SPEED", Num(QUARTER_SPEED)),
     Define("HALF_SPEED", Num(HALF_SPEED)),
     Define("THREE_QUARTERS_SPEED", Num(THREE_QUARTERS_SPEED)),
     Define("FULL_SPEED", Num(FULL_SPEED)),
     Blank,
     Comment,
     Define("QUARTER_SPEED_CTRL_MAX", Num(QUARTER_SPEED_CTRL_MAX)),
     Define("HALF_SPEED_CTRL_MAX", Num(HALF_SPEED_CTRL_MAX)),
     Define("THREE_QUARTERS_SPEED_CTRL_MAX", Num(THREE_QUARTERS_SPEED_CTRL_MAX)),
     Blank,
     Comment,
     Define("POOL_EMPTY", Num(POOL_EMPTY)),
     Define("POOL_LOW_LOWER", Num(POOL_LOW_LOWER)),
     Define("POOL_LOW_HIGHER", Num(POOL_LOW_HIGHER)),
     Define("POOL_HIGH_LOWER", Num(POOL_HIGH_LOWER)),
     Define("POOL_CRITICAL_LOWER", Num(POOL_CRITICAL_LOWER)),
     Define("POOL_FULL_LOWER", Num(POOL_FULL_LOWER)),
     Define("POOL_FULL", Num(POOL_FULL)),
     Define("INFLOW_ABS_MAX", Num(INFLOW_ABS_MAX)),
     Blank,
     Comment,
     Define("DEBOUNCE_INTERVAL", Num(DEBOUNCE_INTERVAL)),
     Define("LOG_INFO_INTERVAL", Num(LOG_INFO_INTERVAL)),
     Define("RANDOM_INFLOW_INTERVAL", Num(RANDOM_INFLOW_INTERVAL)),
     Define("LOW_ENERGY_TIMEOUT", Num(LOW_ENERGY_TIMEOUT)),
     Define("OK_ENERGY_TIMEOUT", Num(OK_ENERGY_TIMEOUT)),
     Define("HIGH_ENERGY_TIMEOUT", Num(HIGH_ENERGY_TIMEOUT)),
     Define("CRITICAL_ENERGY_TIMEOUT", Num(CRITICAL_ENERGY_TIMEOUT)),
     Define("LOW_POWER_MODE_LOG_TIMEOUT", Num(LOW_POWER_MODE_LOG_TIMEOUT)),
     Define("STABILITY_TIMEOUT", Num(STABILITY_TIMEOUT)),
     Blank >>

\* pins.h with its last line naming MOTOR_2A_PIN a second time.
pins_h_dup ==
  << Comment,
     Define("LOW_ENERGY_LED", Num(LOW_ENERGY_LED)),
     Define("OK_ENERGY_LED", Num(OK_ENERGY_LED)),
     Define("HIGH_ENERGY_LED", Num(HIGH_ENERGY_LED)),
     Define("CRITICAL_ENERGY_LED", Num(CRITICAL_ENERGY_LED)),
     Blank,
     Comment,
     Define("NET_GAIN_LED", Num(NET_GAIN_LED)),
     Define("NET_LOSS_LED", Num(NET_LOSS_LED)),
     Blank,
     Comment,
     Define("RELEASE_VALVE", RELEASE_VALVE),
     Blank,
     Comment,
     Define("ON_BUTTON", Num(ON_BUTTON)),
     Define("OFF_BUTTON", Num(OFF_BUTTON)),
     Define("TOGGLE_BUTTON", TOGGLE_BUTTON),
     Blank,
     Comment,
     Define("MOTOR_REGULATOR", MOTOR_REGULATOR),
     Define("MOTOR_SPEED_PIN", Num(MOTOR_SPEED_PIN)),
     Define("MOTOR_1A_PIN", Num(MOTOR_1A_PIN)),
     Define("MOTOR_2A_PIN", Num(MOTOR_2A_PIN)),
     Blank,
     Comment,
     Define("ENERGY_SOURCE", ENERGY_SOURCE),
     Blank,
     Comment,
     Define("MOTOR_2A_PIN", Num(MOTOR_OFF_SIGNAL)) >>

pins_h ==
  << Comment,
     Define("LOW_ENERGY_LED", Num(LOW_ENERGY_LED)),
     Define("OK_ENERGY_LED", Num(OK_ENERGY_LED)),
     Define("HIGH_ENERGY_LED", Num(HIGH_ENERGY_LED)),
     Define("CRITICAL_ENERGY_LED", Num(CRITICAL_ENERGY_LED)),
     Blank,
     Comment,
     Define("NET_GAIN_LED", Num(NET_GAIN_LED)),
     Define("NET_LOSS_LED", Num(NET_LOSS_LED)),
     Blank,
     Comment,
     Define("RELEASE_VALVE", RELEASE_VALVE),
     Blank,
     Comment,
     Define("ON_BUTTON", Num(ON_BUTTON)),
     Define("OFF_BUTTON", Num(OFF_BUTTON)),
     Define("TOGGLE_BUTTON", TOGGLE_BUTTON),
     Blank,
     Comment,
     Define("MOTOR_REGULATOR", MOTOR_REGULATOR),
     Define("MOTOR_SPEED_PIN", Num(MOTOR_SPEED_PIN)),
     Define("MOTOR_1A_PIN", Num(MOTOR_1A_PIN)),
     Define("MOTOR_2A_PIN", Num(MOTOR_2A_PIN)),
     Blank,
     Comment,
     Define("ENERGY_SOURCE", ENERGY_SOURCE),
     Blank,
     Comment,
     Define("MOTOR_OFF_SIGNAL", Num(MOTOR_OFF_SIGNAL)) >>

Headers == {"env_limits.h", "pins.h"}

Lines(h) == IF h = "env_limits.h" THEN env_limits_h ELSE pins_h

----------------------------------------------------------------------------
\* The preprocessor.

VARIABLES
  included,   \* the headers included so far, in order
  file,       \* the header being read, "none" between headers
  line,       \* the number of the next line to read in file
  macros      \* the macro table: name -> [body, file, line]

vars == <<included, file, line, macros>>

NoMacros == [n \in {} |-> 0]

Defined(n) == n \in DOMAIN macros

\* The value of an integer macro.
Val(n) == macros[n].body.n

\* The macro table after "#define name body" at line l of header h: the
\* name is bound to the new replacement list, whatever it was bound to.
Bind(table, name, body, h, l) ==
  [n \in DOMAIN table \cup {name} |->
     IF n = name THEN [body |-> body, file |-> h, line |-> l] ELSE table[n]]

Init ==
  /\ included = << >>
  /\ file = "none"
  /\ line = 0
  /\ macros = NoMacros

\* #include "h": start reading h at its first line.
Include(h) ==
  /\ file = "none"
  /\ Len(included) < MaxIncludes
  /\ included' = Append(included, h)
  /\ file' = h
  /\ line' = 1
  /\ UNCHANGED macros

\* A comment or an empty line leaves the macro table alone.
SkipLine ==
  /\ file # "none"
  /\ line <= Len(Lines(file))
  /\ Lines(file)[line].kind # "define"
  /\ line' = line + 1
  /\ UNCHANGED <<included, file, macros>>

\* A #define line binds its name.
DefineMacro ==
  /\ file # "none"
  /\ line <= Len(Lines(file))
  /\ Lines(file)[line].kind = "define"
  /\ macros' = Bind(macros, Lines(file)[line].name, Lines(file)[line].body,
                    file, line)
  /\ line' = line + 1
  /\ UNCHANGED <<included, file>>

\* The end of the header: back to the including file.
EndOfFile ==
  /\ file # "none"
  /\ line > Len(Lines(file))
  /\ file' = "none"
  /\ line' = 0
  /\ UNCHANGED <<included, macros>>

Next ==
  \/ \E h \in Headers : Include(h)
  \/ SkipLine
  \/ DefineMacro
  \/ EndOfFile

Spec == Init /\ [][Next]_vars

----------------------------------------------------------------------------
\* Properties of the macro table.

\* Header h has been read to its end at least once.
Read(h) ==
  \E i \in 1..Len(included) :
    included[i] = h /\ (i < Len(included) \/ file = "none")

\* s[1] < s[2] < ... holds of the macros of s that are defined.
Increasing(s) ==
  \A i, j \in 1..Len(s) :
    (i < j /\ Defined(s[i]) /\ Defined(s[j])) => Val(s[i]) < Val(s[j])

AllDefined(s) == \A i \in 1..Len(s) : Defined(s[i])

SpeedLevels ==
  <<"ZERO_SPEED", "QUARTER_SPEED", "HALF_SPEED", "THREE_QUARTERS_SPEED",
    "FULL_SPEED">>

PoolThresholds ==
  <<"POOL_EMPTY", "POOL_LOW_LOWER", "POOL_LOW_HIGHER", "POOL_HIGH_LOWER",
    "POOL_CRITICAL_LOWER", "POOL_FULL_LOWER", "POOL_FULL">>

CtrlBreakpoints ==
  <<"MIN_ANALOG_READ", "QUARTER_SPEED_CTRL_MAX", "HALF_SPEED_CTRL_MAX",
    "THREE_QUARTERS_SPEED_CTRL_MAX", "MAX_ANALOG_READ">>

\* C1: the five motor speed levels are strictly increasing,
\* ZERO_SPEED < QUARTER_SPEED < HALF_SPEED < THREE_QUARTERS_SPEED < FULL_SPEED.
C1_SpeedLevelsIncreasing == Increasing(SpeedLevels)

C1_Witness == AllDefined(SpeedLevels) /\ Read("env_limits.h")

\* C2: the pool thresholds are strictly increasing in their declared order,
\* POOL_EMPTY < POOL_LOW_LOWER < POOL_LOW_HIGHER < POOL_HIGH_LOWER <
\* POOL_CRITICAL_LOWER < POOL_FULL_LOWER < POOL_FULL, so each band between two
\* neighbouring thresholds holds at least one level and no two bands overlap.
C2_PoolThresholdsIncreasing ==
  /\ Increasing(PoolThresholds)
  /\ AllDefined(PoolThresholds) =>
       \A i \in 1..(Len(PoolThresholds) - 1) :
         /\ Val(PoolThresholds[i])..(Val(PoolThresholds[i + 1]) - 1) # {}
         /\ \A j \in (i + 1)..(Len(PoolThresholds) - 1) :
              Val(PoolThresholds[i + 1]) - 1 < Val(PoolThresholds[j])

C2_Witness == AllDefined(PoolThresholds) /\ Read("env_limits.h")

\* The wiring the specification lists.
Wiring ==
  [LOW_ENERGY_LED |-> Num(7), OK_ENERGY_LED |-> Num(13),
   HIGH_ENERGY_LED |-> Num(8), CRITICAL_ENERGY_LED |-> Num(12),
   NET_GAIN_LED |-> Num(6), NET_LOSS_LED |-> Num(5),
   RELEASE_VALVE |-> Analog(1), ON_BUTTON |-> Num(3), OFF_BUTTON |-> Num(4),
   TOGGLE_BUTTON |-> Analog(3), MOTOR_REGULATOR |-> Analog(2),
   MOTOR_SPEED_PIN |-> Num(9), MOTOR_1A_PIN |-> Num(10),
   MOTOR_2A_PIN |-> Num(11), ENERGY_SOURCE |-> Analog(0),
   MOTOR_OFF_SIGNAL |-> Num(2)]

\* C3: the wiring the headers define is the listed one: every name pins.h
\* defines is one of the sixteen listed, with the listed pin; once pins.h has
\* been read all sixteen are defined; and BAUD_RATE is 9600.
C3_WiringContract ==
  /\ Cardinality(DOMAIN Wiring) = 16
  /\ \A n \in DOMAIN macros : macros[n].file = "pins.h" => n \in DOMAIN Wiring
  /\ \A n \in DOMAIN Wiring :
       Defined(n) => macros[n].body = Wiring[n] /\ macros[n].file = "pins.h"
  /\ Read("pins.h") => DOMAIN Wiring \subseteq DOMAIN macros
  /\ Read("env_limits.h") => Defined("BAUD_RATE")
  /\ Defined("BAUD_RATE") => macros["BAUD_RATE"].body = Num(9600)

C3_Witness == Read("pins.h") /\ Read("env_limits.h")

\* C4: every motor speed level is a PWM write value, MIN_ANALOG_WRITE <= level
\* <= MAX_ANALOG_WRITE, with ZERO_SPEED = MIN_ANALOG_WRITE and FULL_SPEED =
\* MAX_ANALOG_WRITE; the write range is 0..2^8-1 and the read range 0..2^10-1.
C4_SpeedLevelsInWriteRange ==
  /\ (Defined("MIN_ANALOG_WRITE") /\ Defined("MAX_ANALOG_WRITE")) =>
       /\ Val("MIN_ANALOG_WRITE") = 0
       /\ Val("MAX_ANALOG_WRITE") = 2^8 - 1
       /\ \A i \in 1..Len(SpeedLevels) :
            Defined(SpeedLevels[i]) =>
              /\ Val("MIN_ANALOG_WRITE") <= Val(SpeedLevels[i])
              /\ Val(SpeedLevels[i]) <= Val("MAX_ANALOG_WRITE")
       /\ Defined("ZERO_SPEED") => Val("ZERO_SPEED") = Val("MIN_ANALOG_WRITE")
       /\ Defined("FULL_SPEED") => Val("FULL_SPEED") = Val("MAX_ANALOG_WRITE")
  /\ (Defined("MIN_ANALOG_READ") /\ Defined("MAX_ANALOG_READ")) =>
       /\ Val("MIN_ANALOG_READ") = 0
       /\ Val("MAX_ANALOG_READ") = 2^10 - 1

C4_Witness ==
  /\ AllDefined(SpeedLevels)
  /\ Defined("MAX_ANALOG_WRITE") /\ Defined("MAX_ANALOG_READ")
  /\ file = "pins.h"

\* The number of #define lines of header h.
NDefines(h) ==
  Cardinality({i \in 1..Len(Lines(h)) : Lines(h)[i].kind = "define"})

\* C5: a macro, once defined, keeps its replacement list and its one place of
\* definition whatever is included afterwards, and every #define line brings
\* a name of its own: with both headers read the table holds as many names as
\* the two headers have #define lines.
C5_MacrosNeverRedefined ==
  /\ [][\A n \in DOMAIN macros :
          n \in DOMAIN macros' /\ macros'[n] = macros[n]]_vars
  /\ []((Read("env_limits.h") /\ Read("pins.h")) =>
          Cardinality(DOMAIN macros)
            = NDefines("env_limits.h") + NDefines("pins.h"))

C5_Witness ==
  /\ included = <<"pins.h", "env_limits.h", "pins.h">>
  /\ file = "none"
  /\ Cardinality(DOMAIN macros) = 32 + 16

\* C6: MOTOR_OFF_FREQUENCY lies in the range its comment states,
\* 31 <= MOTOR_OFF_FREQUENCY <= 65535, so it fits 16 unsigned bits.
C6_MotorOffFrequencyInRange ==
  Defined("MOTOR_OFF_FREQUENCY") =>
    /\ 31 <= Val("MOTOR_OFF_FREQUENCY")
    /\ Val("MOTOR_OFF_FREQUENCY") <= 65535
    /\ Val("MOTOR_OFF_FREQUENCY") % 2^16 = Val("MOTOR_OFF_FREQUENCY")

C6_Witness == Defined("MOTOR_OFF_FREQUENCY") /\ line = 6

\* C7: MIN_ANALOG_READ < QUARTER_SPEED_CTRL_MAX < HALF_SPEED_CTRL_MAX <
\* THREE_QUARTERS_SPEED_CTRL_MAX < MAX_ANALOG_READ, so the three breakpoints
\* cut the readings MIN_ANALOG_READ..MAX_ANALOG_READ into four bands, each
\* with a reading in it and every reading in exactly one, whichever of the
\* two neighbouring bands a breakpoint itself is counted to.
C7_CtrlBreakpointsPartition ==
  /\ Increasing(CtrlBreakpoints)
  /\ AllDefined(CtrlBreakpoints) =>
       LET lo == Val("MIN_ANALOG_READ")
           hi == Val("MAX_ANALOG_READ")
           cut == [k \in 1..3 |-> Val(CtrlBreakpoints[k + 1])]
           \* the band of reading r, a breakpoint counted to the band
           \* below it (incl = 1) or above it (incl = 0)
           Band(r, incl) ==
             1 + Cardinality({k \in 1..3 : r >= cut[k] + incl})
       IN  \A incl \in {0, 1} :
             /\ \A r \in lo..hi : Band(r, incl) \in 1..4
             /\ \A b \in 1..4 : \E r \in lo..hi : Band(r, incl) = b

C7_Witness == AllDefined(CtrlBreakpoints) /\ Read("env_limits.h")

\* C8: the sixteen pins of pins.h are pairwise different: no two names have
\* the same replacement list, the digital ones are numbers of 2..13, the
\* analog ones are A0..A3, and with A0..A3 numbered 14..17 no two names have
\* the same pin number.
C8_PinsDistinct ==
  LET pins == {n \in DOMAIN macros : macros[n].file = "pins.h"}
      PinNumber(t) == IF t.tok = "analog" THEN 14 + t.n ELSE t.n
  IN  /\ \A a, b \in pins :
           a # b =>
             /\ macros[a].body # macros[b].body
             /\ PinNumber(macros[a].body) # PinNumber(macros[b].body)
      /\ \A a \in pins :
           IF macros[a].body.tok = "analog"
             THEN macros[a].body.n \in 0..3
             ELSE macros[a].body.n \in 2..13

C8_Witness ==
  /\ Read("pins.h")
  /\ Cardinality({n \in DOMAIN macros : macros[n].file = "pins.h"}) = 16

\* C9: a controller breakpoint divided by 4 (integer division, rounding down)
\* is the matching speed level: QUARTER_SPEED_CTRL_MAX / 4 = QUARTER_SPEED,
\* HALF_SPEED_CTRL_MAX / 4 = HALF_SPEED, THREE_QUARTERS_SPEED_CTRL_MAX / 4 =
\* THREE_QUARTERS_SPEED and MAX_ANALOG_READ / 4 = FULL_SPEED.
C9_BreakpointOverFourIsLevel ==
  \A k \in 2..5 :
    (Defined(CtrlBreakpoints[k]) /\ Defined(SpeedLevels[k])) =>
      Val(CtrlBreakpoints[k]) \div 4 = Val(SpeedLevels[k])

C9_Witness ==
  /\ \A k \in 2..5 : Defined(CtrlBreakpoints[k]) /\ Defined(SpeedLevels[k])
  /\ file = "env_limits.h"

====
